---- MODULE Spec2Model ----
(***************************************************************************)
(* Model of the /api/fetch-sp500-quotes handler of src/server.ts: the      *)
(* ticker universe is loaded and partitioned, one provider request per     *)
(* chunk is issued, every response is processed by its own continuation    *)
(* (which shares the seenSymbols set with the others), Promise.all joins   *)
(* them, and the handler then deduplicates, posts the quotes, reads the    *)
(* historical data back, posts the pull time and answers.                  *)
(*                                                                         *)
(* Node runs one continuation at a time, so every action below is one      *)
(* synchronous stretch of the handler between two awaits.                  *)
(*                                                                         *)
(* The /api/execute-oauth handler and the token pair it stores are         *)
(* modelled next to it (SpecAuth), as are chunkArray and the quotes.map    *)
(* callback applied on their own (SpecFn); SpecLive is the run under the   *)
(* event loop's scheduling.                                                *)
(*                                                                         *)
(* An entry of QuoteData is the record                                     *)
(*   [isNull, symbol, lastTrade, high52, low52]                            *)
(* standing for q.Product.symbol and q.All.{lastTrade,high52,low52}; the   *)
(* other fields of q.All are copied through unchanged by the handler and   *)
(* are left out.  isNull marks a JSON null entry, on which q.All throws.   *)
(* A field that may be missing is a sequence: <<>> when it is undefined,   *)
(* <<v>> when it holds v.                                                  *)
(***************************************************************************)
EXTENDS Integers, Sequences, FiniteSets, TLC

\* ------------------------------------------------------------------ bounds
MaxChunks == 2          \* the ticker universe fills at most this many chunks
MaxEntries == 3         \* the provider's responses to one run hold at most
                        \* this many QuoteData entries in total
MaxHandshakes == 3      \* execute-oauth requests received in one behaviour
MaxValue == 2           \* largest price a QuoteData entry is given when
                        \* the map callback is studied on its own
MaxLen == 5             \* longest array chunkArray is studied on

\* ------------------------------------------------------- program constants
ChunkSize == 50

Symbols == {"AAA", "BBB"}

\* last-trade prices the provider reports; the 52-week high is 2 throughout
Prices == {1, 2}

Undefined == <<>>
Some(v) == <<v>>
Val(f) == f[1]

\* ------------------------------------------------------------ pure helpers
Min(a, b) == IF a < b THEN a ELSE b

\* Math.floor in place of Math.ceil
FloorDiv(a, b) == a \div b

CeilDiv(a, b) == (a + b - 1) \div b

\* arr.slice(from, to) with 0-based from (inclusive) and to (exclusive)
Slice(arr, from, to) == SubSeq(arr, from + 1, Min(to, Len(arr)))

chunkArray(arr, size) ==
    [i \in 1..CeilDiv(Len(arr), size) |->
        Slice(arr, (i - 1) * size, (i - 1) * size + size)]

\* JavaScript truthiness of a numeric field and of a string field
TruthyNum(f) == f # Undefined /\ Val(f) # 0
TruthyStr(f) == f # Undefined /\ Val(f) # ""

Abs(x) == IF x < 0 THEN -x ELSE x

\* n/d rounded to the nearest integer, ties away from zero (d > 0)
RoundDiv(n, d) ==
    LET q == (2 * Abs(n) + d) \div (2 * d)
    IN  IF n < 0 THEN -q ELSE q

\* (((lastTrade - low52) / low52) * 100).toFixed(2): a finite result is kept
\* as its number of hundredths, the others as the string toFixed prints.
ToFixed2(lastTrade, low52) ==
    IF low52 = Undefined THEN [kind |-> "NaN", val |-> 0]
    ELSE IF Val(low52) = 0
         THEN IF Val(lastTrade) = 0 THEN [kind |-> "NaN", val |-> 0]
              ELSE IF Val(lastTrade) > 0 THEN [kind |-> "Infinity", val |-> 0]
                   ELSE [kind |-> "-Infinity", val |-> 0]
         ELSE [kind |-> "num",
               val  |-> IF Val(low52) > 0
                        THEN RoundDiv((Val(lastTrade) - Val(low52)) * 10000, Val(low52))
                        ELSE RoundDiv(-((Val(lastTrade) - Val(low52)) * 10000), -Val(low52))]

growth(q) ==
    IF TruthyNum(q.high52) /\ TruthyNum(q.lastTrade)
    THEN ToFixed2(q.lastTrade, q.low52)
    ELSE [kind |-> "null", val |-> 0]

\* the comparison written with >
isNewHighStrict(lastTrade, week52High) == Val(lastTrade) > Val(week52High)

isNewHigh(lastTrade, week52High) == Val(lastTrade) >= Val(week52High)

\* the object literal returned by the quotes.map callback
MakeQuote(q) ==
    [symbol    |-> Val(q.symbol),
     high52    |-> q.high52,
     low52     |-> q.low52,
     price     |-> Val(q.lastTrade),
     growth    |-> growth(q),
     isNewHigh |-> isNewHigh(q.lastTrade, q.high52)]

\* the guard at the top of the quotes.map callback: the entry is dropped
MissingField(q) ==
    \/ ~TruthyStr(q.symbol)
    \/ q.lastTrade = Undefined
    \/ q.high52 = Undefined

\* a Set or Map keyed by a stored object would compare keys by identity
SameSymbolByIdentity(a, b) == FALSE

\* key equality of Set.has and Map.has (SameValueZero) on symbol strings
SameSymbol(a, b) == a = b

\* a callback that never consults the shared set
SeenHasNot(seen, symbol) == FALSE

\* seenSymbols.has(symbol)
SeenHas(seen, symbol) == \E t \in seen : SameSymbol(t, symbol)

\* quotes.map(...).filter(Boolean) run against the shared seenSymbols set.
\* threw: an entry was JSON null, so q.All raised and the map stopped there;
\* the symbols added to the set before that stay in it.
RECURSIVE MapQuotes(_, _, _, _)
MapQuotes(quotes, i, seen, acc) ==
    IF i > Len(quotes)
    THEN [threw |-> FALSE, out |-> acc, seen |-> seen]
    ELSE LET q == quotes[i]
         IN  IF q.isNull
             THEN [threw |-> TRUE, out |-> <<>>, seen |-> seen]
             ELSE IF MissingField(q)
                  THEN MapQuotes(quotes, i + 1, seen, acc)
                  ELSE IF SeenHas(seen, Val(q.symbol))
                       THEN MapQuotes(quotes, i + 1, seen, acc)
                       ELSE MapQuotes(quotes, i + 1, seen \cup {Val(q.symbol)},
                                      Append(acc, MakeQuote(q)))

\* a callback without the guard of line 214: every entry becomes a quote
ProcessResponseUnchecked(response, seen) ==
    [threw |-> FALSE,
     out   |-> [i \in 1..Len(response.quotes) |->
                  LET q == response.quotes[i]
                  IN  [symbol    |-> IF q.symbol = Undefined THEN "" ELSE Val(q.symbol),
                       high52    |-> q.high52,
                       low52     |-> q.low52,
                       price     |-> IF q.lastTrade = Undefined THEN 0 ELSE Val(q.lastTrade),
                       growth    |-> [kind |-> "null", val |-> 0],
                       isNewHigh |-> FALSE]],
     seen  |-> seen]

\* the body of the try block once axios.get has resolved with a response
\* whose QuoteData (or [] in its place) is response.quotes
ProcessResponse(response, seen) == MapQuotes(response.quotes, 1, seen, <<>>)

\* results.flat().filter(Boolean): a null result contributes nothing
RECURSIVE Flat(_, _)
Flat(res, i) ==
    IF i > Len(res) THEN <<>>
    ELSE (IF res[i].isNull THEN <<>> ELSE res[i].quotes) \o Flat(res, i + 1)

\* uniqueQuotesMap.has(symbol)
MapHas(map, symbol) == \E j \in 1..Len(map) : SameSymbol(map[j].symbol, symbol)

\* the for loop over combinedQuotes; the Map is kept as the sequence of its
\* values in insertion order, which is what Array.from(map.values()) returns
RECURSIVE Dedup(_, _, _)
Dedup(combined, i, map) ==
    IF i > Len(combined) THEN map
    ELSE Dedup(combined, i + 1,
               IF MapHas(map, combined[i].symbol) THEN map
               ELSE Append(map, combined[i]))

\* Promise.race / Promise.any instead: resumes at the first settled promise
SomeSettled(state) == \E b \in DOMAIN state : state[b] # "pending"

\* Promise.all over the batch promises: resumes when none is pending
AllSettled(state) == \A b \in DOMAIN state : state[b] # "pending"

\* ---------------------------------------------------- provider's responses
Entry(s, lt) ==
    [isNull |-> FALSE, symbol |-> Some(s), lastTrade |-> lt,
     high52 |-> Some(2), low52 |-> Some(1)]

NullEntry ==
    [isNull |-> TRUE, symbol |-> Undefined, lastTrade |-> Undefined,
     high52 |-> Undefined, low52 |-> Undefined]

Entries ==
    {Entry("AAA", Some(p)) : p \in Prices}
        \cup {Entry("BBB", Some(1)), Entry("AAA", Undefined), NullEntry}

SeqsUpTo(S, n) == UNION {[1..k -> S] : k \in 0..n}

\* what axios.get can resolve with: a body with at most n QuoteData entries
ResponsesWithin(n) == {[quotes |-> qs] : qs \in SeqsUpTo(Entries, n)}

\* placeholder for a chunk that has no response (yet)
NoResponse == [quotes |-> <<>>]

\* number of QuoteData entries in the responses rs[i], rs[i+1], ...
RECURSIVE EntriesSoFar(_, _)
EntriesSoFar(rs, i) ==
    IF i > Len(rs) THEN 0 ELSE Len(rs[i].quotes) + EntriesSoFar(rs, i + 1)

TickerCounts ==
    {0, ChunkSize} \cup {(k - 1) * ChunkSize + 1 : k \in 1..MaxChunks}

\* ------------------------------------------------------------------- state
VARIABLES
    pc,               \* where the handler is suspended
    chunks,           \* chunkArray(tickers, 50)
    batchState,       \* per chunk: "pending", "resolved" or "rejected"
    fetchCalls,       \* per chunk: number of axios.get(quoteUrl) calls made
    responses,        \* per chunk: what axios.get resolved with
    completionOrder,  \* chunk indices in the order their continuations ran
    seenSymbols,      \* the Set shared by the batch callbacks
    results,          \* per chunk: what the batch callback returned
    uniqueQuotesMap,  \* the dedup Map, as its values in insertion order
    insertCalls,      \* the highs payload of every add-todays-highs post
    queryCalls,       \* number of get-historical-data requests made
    pullCalls,        \* number of pull-times posts made
    outcome,          \* how load, insert, query and pull-time ended
    historicalData,   \* "null" or the body of the get-historical-data reply
    sent,             \* the responses written to res, in order
    signedWith,       \* per chunk: the token pair its request was signed with
    storedAccessToken,        \* line 104: Undefined until a handshake stores it
    storedAccessTokenSecret,  \* line 105
    oauthPc,          \* where the execute-oauth handler is suspended
    oauthBody,        \* req.body of the execute-oauth request last received
    exchangeCalls,    \* number of axios.get(accessTokenUrl) calls made
    oauthSent,        \* the responses the execute-oauth handler has written
    input,            \* the argument a function under study is applied to
    output            \* what the function returned

vars == <<pc, chunks, batchState, fetchCalls, responses, completionOrder,
          seenSymbols, results, uniqueQuotesMap, insertCalls, queryCalls,
          pullCalls, outcome, historicalData, sent, signedWith,
          storedAccessToken, storedAccessTokenSecret, oauthPc, oauthBody,
          exchangeCalls, oauthSent, input, output>>

\* the state of the token store and of the execute-oauth handler
authVars == <<storedAccessToken, storedAccessTokenSecret, oauthPc, oauthBody,
              exchangeCalls, oauthSent>>

\* the state of a function application
pureVars == <<input, output>>

\* the state of a run of the fetch-sp500-quotes handler
runVars == <<pc, chunks, batchState, fetchCalls, responses, completionOrder,
             seenSymbols, results, uniqueQuotesMap, insertCalls, queryCalls,
             pullCalls, outcome, historicalData, sent, signedWith>>

NoBody == [oauth_token |-> FALSE, oauth_token_secret |-> FALSE,
           oauth_verifier |-> FALSE]

NoInput == [fn |-> "none"]

NoOutput == [done |-> FALSE]

NumChunks == Len(chunks)

NullResult == [isNull |-> TRUE, quotes |-> <<>>]

HistoricalRows == "rows"

ErrorBody == "error: Failed to fetch quotes"

\* no run of the fetch handler has begun
InitRun ==
    /\ pc = "start"
    /\ chunks = <<>>
    /\ batchState = <<>>
    /\ fetchCalls = <<>>
    /\ responses = <<>>
    /\ completionOrder = <<>>
    /\ seenSymbols = {}
    /\ results = <<>>
    /\ uniqueQuotesMap = <<>>
    /\ insertCalls = <<>>
    /\ queryCalls = 0
    /\ pullCalls = 0
    /\ outcome = [load |-> "none", insert |-> "none", query |-> "none", pull |-> "none"]
    /\ historicalData = "null"
    /\ sent = <<>>
    /\ signedWith = <<>>

\* lines 104-105: the token variables are declared without a value
InitAuth ==
    /\ storedAccessToken = Undefined
    /\ storedAccessTokenSecret = Undefined
    /\ oauthPc = "idle"
    /\ oauthBody = NoBody
    /\ exchangeCalls = 0
    /\ oauthSent = <<>>

InitPure ==
    /\ input = NoInput
    /\ output = NoOutput

\* the process has started and no request has arrived
Init ==
    /\ InitRun
    /\ InitAuth
    /\ InitPure

\* --------------------------------------------------------------- actions
Respond(status, body) == Append(sent, [status |-> status, body |-> body])

\* lines 166-201: the universe loads, is partitioned, and every chunk's
\* callback runs up to its await axios.get, signing its request (line 189)
\* with the token pair stored at that moment; the handler then awaits
\* Promise.all
Start ==
    /\ pc = "start"
    /\ \E n \in TickerCounts :
          LET tickers == [i \in 1..n |-> i]
              cs == chunkArray(tickers, ChunkSize)
          IN  /\ chunks' = cs
              /\ batchState' = [b \in 1..Len(cs) |-> "pending"]
              /\ fetchCalls' = [b \in 1..Len(cs) |-> 1]
              /\ responses' = [b \in 1..Len(cs) |-> NoResponse]
              /\ results' = [b \in 1..Len(cs) |-> NullResult]
              /\ signedWith' = [b \in 1..Len(cs) |->
                                  [key |-> storedAccessToken,
                                   secret |-> storedAccessTokenSecret]]
    /\ outcome' = [outcome EXCEPT !.load = "ok"]
    /\ pc' = "fetching"
    /\ UNCHANGED <<completionOrder, seenSymbols, uniqueQuotesMap, insertCalls,
                   queryCalls, pullCalls, historicalData, sent>>
    /\ UNCHANGED <<authVars, pureVars>>

\* lines 166-167 throw (file missing, bad JSON, no sp500_tickers array):
\* the outer catch answers 500
LoadFails ==
    /\ pc = "start"
    /\ outcome' = [outcome EXCEPT !.load = "failed"]
    /\ sent' = Respond(500, ErrorBody)
    /\ pc' = "done"
    /\ UNCHANGED <<chunks, batchState, fetchCalls, responses, completionOrder,
                   seenSymbols, results, uniqueQuotesMap, insertCalls,
                   queryCalls, pullCalls, historicalData>>
    /\ UNCHANGED <<signedWith, authVars, pureVars>>

\* the chunks requested one after the other: when chunk b's request has
\* failed, the request of chunk b + 1 is signed, with the pair stored by then
BatchRejectsSignsNext(b) ==
    /\ pc = "fetching"
    /\ batchState[b] = "pending"
    /\ batchState' = [batchState EXCEPT ![b] = "rejected"]
    /\ results' = [results EXCEPT ![b] = NullResult]
    /\ completionOrder' = Append(completionOrder, b)
    /\ signedWith' = [c \in DOMAIN signedWith |->
                        IF c = b + 1
                        THEN [key |-> storedAccessToken,
                              secret |-> storedAccessTokenSecret]
                        ELSE signedWith[c]]
    /\ UNCHANGED <<pc, chunks, fetchCalls, responses, seenSymbols,
                   uniqueQuotesMap, insertCalls, queryCalls, pullCalls,
                   outcome, historicalData, sent>>
    /\ UNCHANGED <<authVars, pureVars>>

\* a callback whose catch rethrows: Promise.all rejects and the outer catch
\* answers 500
BatchRejectsRethrow(b) ==
    /\ pc = "fetching"
    /\ batchState[b] = "pending"
    /\ batchState' = [batchState EXCEPT ![b] = "rejected"]
    /\ completionOrder' = Append(completionOrder, b)
    /\ sent' = Respond(500, ErrorBody)
    /\ pc' = "done"
    /\ UNCHANGED <<chunks, fetchCalls, responses, seenSymbols, results,
                   uniqueQuotesMap, insertCalls, queryCalls, pullCalls,
                   outcome, historicalData>>
    /\ UNCHANGED <<signedWith, authVars, pureVars>>

\* a callback whose catch requests the chunk again
BatchRejectsRetry(b) ==
    /\ pc = "fetching"
    /\ batchState[b] = "pending"
    /\ fetchCalls[b] < 2
    /\ fetchCalls' = [fetchCalls EXCEPT ![b] = @ + 1]
    /\ UNCHANGED <<pc, chunks, batchState, responses, completionOrder,
                   seenSymbols, results, uniqueQuotesMap, insertCalls,
                   queryCalls, pullCalls, outcome, historicalData, sent>>
    /\ UNCHANGED <<signedWith, authVars, pureVars>>

\* axios.get of chunk b rejects, or resolves with a body that has no data
\* object or whose QuoteData is not an array, so that line 205 or 207 throws
\* before any entry is looked at: the callback's catch returns null
BatchRejects(b) ==
    /\ pc = "fetching"
    /\ batchState[b] = "pending"
    /\ batchState' = [batchState EXCEPT ![b] = "rejected"]
    /\ results' = [results EXCEPT ![b] = NullResult]
    /\ completionOrder' = Append(completionOrder, b)
    /\ UNCHANGED <<pc, chunks, fetchCalls, responses, seenSymbols,
                   uniqueQuotesMap, insertCalls, queryCalls, pullCalls,
                   outcome, historicalData, sent>>
    /\ UNCHANGED <<signedWith, authVars, pureVars>>

\* a callback that merges its quotes into the dedup Map itself
BatchResolvesMerging(b) ==
    /\ pc = "fetching"
    /\ batchState[b] = "pending"
    /\ \E r \in ResponsesWithin(MaxEntries - EntriesSoFar(responses, 1)) :
          LET p == ProcessResponse(r, seenSymbols)
          IN  /\ seenSymbols' = p.seen
              /\ results' = [results EXCEPT ![b] =
                               IF p.threw THEN NullResult
                               ELSE [isNull |-> FALSE, quotes |-> p.out]]
              /\ uniqueQuotesMap' = Dedup(p.out, 1, uniqueQuotesMap)
              /\ responses' = [responses EXCEPT ![b] = r]
    /\ batchState' = [batchState EXCEPT ![b] = "resolved"]
    /\ completionOrder' = Append(completionOrder, b)
    /\ UNCHANGED <<pc, chunks, fetchCalls, insertCalls,
                   queryCalls, pullCalls, outcome, historicalData, sent>>
    /\ UNCHANGED <<signedWith, authVars, pureVars>>

\* axios.get of chunk b resolves with some response r the provider can
\* still send: lines 203-246 run, and the catch turns a throw into a null
\* result
BatchResolves(b) ==
    /\ pc = "fetching"
    /\ batchState[b] = "pending"
    /\ \E r \in ResponsesWithin(MaxEntries - EntriesSoFar(responses, 1)) :
          LET p == ProcessResponse(r, seenSymbols)
          IN  /\ seenSymbols' = p.seen
              /\ results' = [results EXCEPT ![b] =
                               IF p.threw THEN NullResult
                               ELSE [isNull |-> FALSE, quotes |-> p.out]]
              /\ responses' = [responses EXCEPT ![b] = r]
    /\ batchState' = [batchState EXCEPT ![b] = "resolved"]
    /\ completionOrder' = Append(completionOrder, b)
    /\ UNCHANGED <<pc, chunks, fetchCalls, uniqueQuotesMap, insertCalls,
                   queryCalls, pullCalls, outcome, historicalData, sent>>
    /\ UNCHANGED <<signedWith, authVars, pureVars>>

\* the length test written as >= 0: the insert is posted even when empty
AggregateAlwaysPosts ==
    /\ pc = "fetching"
    /\ AllSettled(batchState)
    /\ LET combinedQuotes == Flat(results, 1)
           map == Dedup(combinedQuotes, 1, <<>>)
       IN  /\ uniqueQuotesMap' = map
           /\ insertCalls' = Append(insertCalls, map)
           /\ pc' = "insert"
           /\ UNCHANGED pullCalls
    /\ UNCHANGED <<chunks, batchState, fetchCalls, responses, completionOrder,
                   seenSymbols, results, queryCalls, outcome, historicalData,
                   sent>>
    /\ UNCHANGED <<signedWith, authVars, pureVars>>

\* lines 253-267 / 281-295: Promise.all has resolved; the results are merged
\* and deduplicated, then either the insert is posted or, with nothing to
\* send, the pull time is posted
Aggregate ==
    /\ pc = "fetching"
    /\ AllSettled(batchState)
    /\ LET combinedQuotes == Flat(results, 1)
           map == Dedup(combinedQuotes, 1, <<>>)
       IN  /\ uniqueQuotesMap' = map
           /\ IF Len(map) > 0
              THEN /\ insertCalls' = Append(insertCalls, map)
                   /\ pc' = "insert"
                   /\ UNCHANGED pullCalls
              ELSE /\ pullCalls' = pullCalls + 1
                   /\ pc' = "pull"
                   /\ UNCHANGED insertCalls
    /\ UNCHANGED <<chunks, batchState, fetchCalls, responses, completionOrder,
                   seenSymbols, results, queryCalls, outcome, historicalData,
                   sent>>
    /\ UNCHANGED <<signedWith, authVars, pureVars>>

\* the pull time posted as soon as the insert has returned, ahead of the
\* historical request
InsertSucceedsPullFirst ==
    /\ pc = "insert"
    /\ outcome' = [outcome EXCEPT !.insert = "ok"]
    /\ pullCalls' = pullCalls + 1
    /\ pc' = "pull"
    /\ UNCHANGED <<chunks, batchState, fetchCalls, responses, completionOrder,
                   seenSymbols, results, uniqueQuotesMap, insertCalls,
                   queryCalls, historicalData, sent>>
    /\ UNCHANGED <<signedWith, authVars, pureVars>>

\* lines 270-274: the insert returned; the historical data is requested
InsertSucceeds ==
    /\ pc = "insert"
    /\ outcome' = [outcome EXCEPT !.insert = "ok"]
    /\ queryCalls' = queryCalls + 1
    /\ pc' = "query"
    /\ UNCHANGED <<chunks, batchState, fetchCalls, responses, completionOrder,
                   seenSymbols, results, uniqueQuotesMap, insertCalls,
                   pullCalls, historicalData, sent>>
    /\ UNCHANGED <<signedWith, authVars, pureVars>>

\* the insert in a try block of its own: its failure is logged and the
\* historical data is requested all the same
InsertFailsThenQueries ==
    /\ pc = "insert"
    /\ outcome' = [outcome EXCEPT !.insert = "failed"]
    /\ queryCalls' = queryCalls + 1
    /\ pc' = "query"
    /\ UNCHANGED <<chunks, batchState, fetchCalls, responses, completionOrder,
                   seenSymbols, results, uniqueQuotesMap, insertCalls,
                   pullCalls, historicalData, sent>>
    /\ UNCHANGED <<signedWith, authVars, pureVars>>

\* lines 277-279, 284-295: the insert threw; the shared catch skips the
\* historical request and the pull time is posted
InsertFails ==
    /\ pc = "insert"
    /\ outcome' = [outcome EXCEPT !.insert = "failed"]
    /\ pullCalls' = pullCalls + 1
    /\ pc' = "pull"
    /\ UNCHANGED <<chunks, batchState, fetchCalls, responses, completionOrder,
                   seenSymbols, results, uniqueQuotesMap, insertCalls,
                   queryCalls, historicalData, sent>>
    /\ UNCHANGED <<signedWith, authVars, pureVars>>

\* lines 275-276, 284-295
QuerySucceeds ==
    /\ pc = "query"
    /\ outcome' = [outcome EXCEPT !.query = "ok"]
    /\ historicalData' = HistoricalRows
    /\ pullCalls' = pullCalls + 1
    /\ pc' = "pull"
    /\ UNCHANGED <<chunks, batchState, fetchCalls, responses, completionOrder,
                   seenSymbols, results, uniqueQuotesMap, insertCalls,
                   queryCalls, sent>>
    /\ UNCHANGED <<signedWith, authVars, pureVars>>

\* lines 277-279, 284-295
QueryFails ==
    /\ pc = "query"
    /\ outcome' = [outcome EXCEPT !.query = "failed"]
    /\ pullCalls' = pullCalls + 1
    /\ pc' = "pull"
    /\ UNCHANGED <<chunks, batchState, fetchCalls, responses, completionOrder,
                   seenSymbols, results, uniqueQuotesMap, insertCalls,
                   queryCalls, historicalData, sent>>
    /\ UNCHANGED <<signedWith, authVars, pureVars>>

\* lines 299, 305-307
PullSucceeds ==
    /\ pc = "pull"
    /\ outcome' = [outcome EXCEPT !.pull = "ok"]
    /\ sent' = Respond(200, historicalData)
    /\ pc' = "done"
    /\ UNCHANGED <<chunks, batchState, fetchCalls, responses, completionOrder,
                   seenSymbols, results, uniqueQuotesMap, insertCalls,
                   queryCalls, pullCalls, historicalData>>
    /\ UNCHANGED <<signedWith, authVars, pureVars>>

\* a pull-times catch that answers 500 itself and does not return: line 307
\* then answers again
PullFailsAnswersInCatch ==
    /\ pc = "pull"
    /\ outcome' = [outcome EXCEPT !.pull = "failed"]
    /\ sent' = Append(Respond(500, ErrorBody),
                      [status |-> 200, body |-> historicalData])
    /\ pc' = "done"
    /\ UNCHANGED <<chunks, batchState, fetchCalls, responses, completionOrder,
                   seenSymbols, results, uniqueQuotesMap, insertCalls,
                   queryCalls, pullCalls, historicalData>>
    /\ UNCHANGED <<signedWith, authVars, pureVars>>

\* the pull-times post outside its try block: the outer catch answers 500
PullFailsUncaught ==
    /\ pc = "pull"
    /\ outcome' = [outcome EXCEPT !.pull = "failed"]
    /\ sent' = Respond(500, ErrorBody)
    /\ pc' = "done"
    /\ UNCHANGED <<chunks, batchState, fetchCalls, responses, completionOrder,
                   seenSymbols, results, uniqueQuotesMap, insertCalls,
                   queryCalls, pullCalls, historicalData>>
    /\ UNCHANGED <<signedWith, authVars, pureVars>>

\* lines 300-307
PullFails ==
    /\ pc = "pull"
    /\ outcome' = [outcome EXCEPT !.pull = "failed"]
    /\ sent' = Respond(200, historicalData)
    /\ pc' = "done"
    /\ UNCHANGED <<chunks, batchState, fetchCalls, responses, completionOrder,
                   seenSymbols, results, uniqueQuotesMap, insertCalls,
                   queryCalls, pullCalls, historicalData>>
    /\ UNCHANGED <<signedWith, authVars, pureVars>>

\* ------------------------------------------- the execute-oauth handler
\* req.body as the handler sees it: for each field, whether it is truthy
Bodies == [oauth_token : BOOLEAN, oauth_token_secret : BOOLEAN,
           oauth_verifier : BOOLEAN]

\* the test of line 110 written without the verifier
CompleteNoVerifier(body) == body.oauth_token /\ body.oauth_token_secret

\* line 110, negated: every field is there
Complete(body) ==
    body.oauth_token /\ body.oauth_token_secret /\ body.oauth_verifier

\* bodies the provider can answer the exchange with, after qs.parse: a
\* plain pair, a percent-encoded pair, a pair whose secret is malformed, and
\* a body without the two fields
ExchangeBodies ==
    { [oauth_token |-> <<"t1">>,    oauth_token_secret |-> <<"s1">>],
      [oauth_token |-> <<"a%2Fb">>, oauth_token_secret |-> <<"s%2B2">>],
      [oauth_token |-> <<"t1">>,    oauth_token_secret |-> <<"%">>],
      [oauth_token |-> Undefined,   oauth_token_secret |-> Undefined] }

\* decodeURIComponent throws a URIError on a malformed escape
DecodeThrows(v) == v = <<"%">>

\* decodeURIComponent(v as string): undefined is turned into the string
\* "undefined", escapes are decoded
Decode(v) ==
    CASE v = Undefined   -> <<"undefined">>
      [] v = <<"a%2Fb">> -> <<"a/b">>
      [] v = <<"s%2B2">> -> <<"s+2">>
      [] OTHER           -> v

OauthReply(status, authenticated) ==
    [status |-> status, authenticated |-> authenticated]

\* number of execute-oauth requests received so far
Handshakes == Len(oauthSent) + (IF oauthPc = "exchanging" THEN 1 ELSE 0)

\* lines 108-115: a request with a missing field is answered 400
OauthMissingFields ==
    /\ oauthPc = "idle"
    /\ Handshakes < MaxHandshakes
    /\ \E body \in Bodies :
          /\ ~Complete(body)
          /\ oauthBody' = body
    /\ oauthSent' = Append(oauthSent, OauthReply(400, FALSE))
    /\ UNCHANGED <<storedAccessToken, storedAccessTokenSecret, oauthPc,
                   exchangeCalls>>
    /\ UNCHANGED <<runVars, pureVars>>

\* lines 108-135: a complete request is signed with the request token and
\* the exchange is requested; the handler awaits axios.get
OauthBegin ==
    /\ oauthPc = "idle"
    /\ Handshakes < MaxHandshakes
    /\ \E body \in Bodies :
          /\ Complete(body)
          /\ oauthBody' = body
    /\ exchangeCalls' = exchangeCalls + 1
    /\ oauthPc' = "exchanging"
    /\ UNCHANGED <<storedAccessToken, storedAccessTokenSecret, oauthSent>>
    /\ UNCHANGED <<runVars, pureVars>>

\* lines 135, 152-158: axios.get rejects; the catch answers 500
OauthExchangeRejects ==
    /\ oauthPc = "exchanging"
    /\ oauthSent' = Append(oauthSent, OauthReply(500, FALSE))
    /\ oauthPc' = "idle"
    /\ UNCHANGED <<storedAccessToken, storedAccessTokenSecret, oauthBody,
                   exchangeCalls>>
    /\ UNCHANGED <<runVars, pureVars>>

\* lines 139-149, 152-158: axios.get resolves; both fields are decoded, then
\* both are stored and the handler answers authenticated; a decoding that
\* throws is caught before anything is stored
OauthExchangeResolves ==
    /\ oauthPc = "exchanging"
    /\ \E rawParsed \in ExchangeBodies :
          IF DecodeThrows(rawParsed.oauth_token)
                \/ DecodeThrows(rawParsed.oauth_token_secret)
          THEN /\ oauthSent' = Append(oauthSent, OauthReply(500, FALSE))
               /\ UNCHANGED <<storedAccessToken, storedAccessTokenSecret>>
          ELSE /\ storedAccessToken' = Decode(rawParsed.oauth_token)
               /\ storedAccessTokenSecret' = Decode(rawParsed.oauth_token_secret)
               /\ oauthSent' = Append(oauthSent, OauthReply(200, TRUE))
    /\ oauthPc' = "idle"
    /\ UNCHANGED <<oauthBody, exchangeCalls>>
    /\ UNCHANGED <<runVars, pureVars>>

Next ==
    \/ Start
    \/ LoadFails
    \/ \E b \in 1..NumChunks : BatchRejects(b)
    \/ \E b \in 1..NumChunks : BatchResolves(b)
    \/ Aggregate
    \/ InsertSucceeds
    \/ InsertFails
    \/ QuerySucceeds
    \/ QueryFails
    \/ PullSucceeds
    \/ PullFails

Spec == Init /\ [][Next]_vars

\* the run up to and including the merge that follows Promise.all (lines
\* 166-267): what the fetch phase and the deduplication can produce
NextFetch ==
    \/ Start
    \/ LoadFails
    \/ \E b \in 1..NumChunks : BatchRejects(b)
    \/ \E b \in 1..NumChunks : BatchResolves(b)
    \/ Aggregate

SpecFetch == Init /\ [][NextFetch]_vars

\* the token store, the handshake handler and the dispatch of a run: the
\* handshake steps interleave with a run whose chunk requests are in flight;
\* what the responses hold plays no part in the signing, so the requests
\* settle by rejection here
NextAuth ==
    \/ OauthMissingFields
    \/ OauthBegin
    \/ OauthExchangeRejects
    \/ OauthExchangeResolves
    \/ Start
    \/ LoadFails
    \/ \E b \in 1..NumChunks : BatchRejects(b)

SpecAuth == Init /\ [][NextAuth]_vars

\* the continuation of chunk b's callback runs (lines 199-250)
BatchSettles(b) ==
    /\ b \in 1..NumChunks
    /\ (BatchRejects(b) \/ BatchResolves(b))

\* the run under Node's scheduling: a continuation whose promise has settled
\* is run, and every request the handler makes is answered or refused in the
\* end, except the request of chunk 1, which the provider may leave
\* unanswered for ever (line 199 passes no timeout to axios.get, and no line
\* arms a timer)
SpecLive ==
    /\ Init
    /\ [][Next]_vars
    /\ WF_vars(Start \/ LoadFails)
    /\ \A b \in 2..MaxChunks : WF_vars(BatchSettles(b))
    /\ WF_vars(Aggregate)
    /\ WF_vars(InsertSucceeds \/ InsertFails)
    /\ WF_vars(QuerySucceeds \/ QueryFails)
    /\ WF_vars(PullSucceeds \/ PullFails)

\* ------------------------------------- the functions of the run, on their own
\* a field of q.All as the provider may send it: left out, or a number
Fields == {Undefined} \cup {Some(v) : v \in 0..MaxValue}

\* QuoteData entries that are objects: the symbol left out, empty or given,
\* and each of lastTrade, high52 and low52 left out or given
RawQuotes ==
    [isNull : {FALSE}, symbol : {Undefined, Some(""), Some("AAA")},
     lastTrade : Fields, high52 : Fields, low52 : Fields]

\* arguments of chunkArray: an array of distinct tickers and a size > 0
ChunkInputs ==
    {[fn |-> "chunkArray", arr |-> [i \in 1..n |-> i], size |-> k] :
        n \in 0..MaxLen, k \in 1..(MaxLen + 1)}

MapInputs == {[fn |-> "map", q |-> q] : q \in RawQuotes}

InitFn ==
    /\ InitRun
    /\ InitAuth
    /\ input \in ChunkInputs \cup MapInputs
    /\ output = NoOutput

\* lines 170-175
ApplyChunkArray ==
    /\ input.fn = "chunkArray"
    /\ ~output.done
    /\ output' = [done |-> TRUE, ret |-> chunkArray(input.arr, input.size)]
    /\ UNCHANGED <<input, runVars, authVars>>

\* lines 205-246 on a response that holds the one entry input.q, with
\* nothing seen before
ApplyMap ==
    /\ input.fn = "map"
    /\ ~output.done
    /\ output' = [done |-> TRUE,
                  ret  |-> ProcessResponse([quotes |-> <<input.q>>], {})]
    /\ UNCHANGED <<input, runVars, authVars>>

NextFn ==
    \/ ApplyChunkArray
    \/ ApplyMap

SpecFn == InitFn /\ [][NextFn]_vars

TypeOK ==
    /\ pc \in {"start", "fetching", "insert", "query", "pull", "done"}
    /\ Len(chunks) <= MaxChunks
    /\ DOMAIN batchState = 1..NumChunks
    /\ seenSymbols \subseteq Symbols
    /\ queryCalls \in 0..1
    /\ pullCalls \in 0..1
    /\ historicalData \in {"null", HistoricalRows}

\* ------------------------------------------------- vocabulary of the claims
Batches == 1..NumChunks

\* the handler is past the await of Promise.all
PastFetch == outcome.load = "ok" /\ pc \in {"insert", "query", "pull", "done"}

Finished == pc = "done"

BatchSucceeded(b) == batchState[b] = "resolved" /\ ~results[b].isNull

BatchFailed(b) == batchState[b] # "pending" /\ results[b].isNull

\* positions of the entries of response r that pass the validation
ValidEntries(r) ==
    {i \in 1..Len(r.quotes) :
        /\ ~r.quotes[i].isNull
        /\ r.quotes[i].symbol # Undefined
        /\ r.quotes[i].lastTrade # Undefined
        /\ r.quotes[i].high52 # Undefined}

ValidSymbols(r) == {r.quotes[i].symbol[1] : i \in ValidEntries(r)}

\* the first valid entry of r for symbol s
FirstEntryFor(r, s) ==
    LET is == {i \in ValidEntries(r) : r.quotes[i].symbol[1] = s}
    IN  r.quotes[CHOOSE i \in is : \A j \in is : i <= j]

HasSymbol(quotes, s) == \E j \in 1..Len(quotes) : quotes[j].symbol = s

NoDuplicateSymbol(quotes) ==
    \A i, j \in 1..Len(quotes) : quotes[i].symbol = quotes[j].symbol => i = j

\* batch b succeeded and its response held a valid entry for symbol s
Returned(b, s) ==
    /\ BatchSucceeded(b)
    /\ \E i \in 1..Len(responses[b].quotes) :
          /\ ~responses[b].quotes[i].isNull
          /\ responses[b].quotes[i].symbol = <<s>>
          /\ responses[b].quotes[i].lastTrade # Undefined
          /\ responses[b].quotes[i].high52 # Undefined

\* position of batch b in the order the continuations ran
Position(b) == CHOOSE i \in 1..Len(completionOrder) : completionOrder[i] = b

\* ------------------------------------------------------------------ claims

\* C1: if exactly one batch fails (its request is rejected or its response
\* cannot be processed), the deduplicated quotes hold a quote for every symbol
\* that a successful batch returned validly, and the run answers 200.
C1_PartialFailureIsolation ==
    (PastFetch /\ Cardinality({b \in Batches : BatchFailed(b)}) = 1) =>
        /\ \A b \in Batches : BatchSucceeded(b) =>
              \A s \in ValidSymbols(responses[b]) : HasSymbol(uniqueQuotesMap, s)
        /\ \A i \in 1..Len(sent) : sent[i].status = 200

\* C2: the sequence posted to add-todays-highs never holds two quotes with
\* the same symbol, whatever the responses and their completion order.
C2_UniqueSymbols ==
    /\ NoDuplicateSymbol(uniqueQuotesMap)
    /\ \A k \in 1..Len(insertCalls) : NoDuplicateSymbol(insertCalls[k])

\* a posted payload, with one response holding AAA twice and another batch's
\* response holding AAA too
C2_Witness ==
    /\ Len(insertCalls) = 1
    /\ \E b1, b2 \in Batches :
          /\ b1 # b2
          /\ BatchSucceeded(b1) /\ BatchSucceeded(b2)
          /\ Cardinality({i \in ValidEntries(responses[b1]) :
                            responses[b1].quotes[i].symbol[1] = "AAA"}) = 2
          /\ "AAA" \in ValidSymbols(responses[b2])

\* C3: a quote kept for symbol s is the one derived from the response of the
\* batch that completed first among the successful batches that returned s.
C3_FirstCompletedWins ==
    PastFetch =>
        \A j \in 1..Len(uniqueQuotesMap) :
            \E b \in Batches :
                /\ Returned(b, uniqueQuotesMap[j].symbol)
                /\ \A c \in Batches :
                      Returned(c, uniqueQuotesMap[j].symbol)
                          => Position(b) <= Position(c)
                /\ uniqueQuotesMap[j] =
                      MakeQuote(FirstEntryFor(responses[b], uniqueQuotesMap[j].symbol))

\* two successful batches returned AAA at different prices, the later chunk
\* completed first, and its quote is the one kept
C3_Witness ==
    /\ PastFetch
    /\ NumChunks = 2
    /\ completionOrder = <<2, 1>>
    /\ BatchSucceeded(1) /\ BatchSucceeded(2)
    /\ "AAA" \in ValidSymbols(responses[1]) \cap ValidSymbols(responses[2])
    /\ FirstEntryFor(responses[1], "AAA").lastTrade
          # FirstEntryFor(responses[2], "AAA").lastTrade
    /\ \E j \in 1..Len(uniqueQuotesMap) :
          uniqueQuotesMap[j] = MakeQuote(FirstEntryFor(responses[2], "AAA"))

\* C4: the merge, the insert post, the historical request and the pull-time
\* post all happen only when no batch of the run is pending any more.
C4_JoinAllBarrier ==
    (\/ pc \in {"insert", "query", "pull"}
     \/ (pc = "done" /\ outcome.load = "ok")
     \/ uniqueQuotesMap # <<>>
     \/ insertCalls # <<>>
     \/ queryCalls > 0
     \/ pullCalls > 0)
        => \A b \in DOMAIN batchState : batchState[b] # "pending"

\* the pull time has been posted after one batch was rejected and another
\* one resolved
C4_Witness ==
    /\ pullCalls = 1
    /\ \E b1, b2 \in Batches :
          batchState[b1] = "rejected" /\ batchState[b2] = "resolved"

C6_ErrorOnlyFromLoad ==
    /\ \A i \in 1..Len(sent) :
          sent[i].status = 500 => (outcome.load = "failed" /\ NumChunks = 0)
    /\ (/\ Finished
        /\ \/ \E b \in Batches : BatchFailed(b)
           \/ "failed" \in {outcome.insert, outcome.query, outcome.pull})
          => (Len(sent) = 1 /\ sent[1].status = 200)

\* a finished run in which one batch was rejected, the other one returned
\* quotes, and the historical request and the pull-time post both failed
C6_Witness ==
    /\ Finished
    /\ \E b1, b2 \in Batches :
          /\ batchState[b1] = "rejected"
          /\ BatchSucceeded(b2)
    /\ outcome.insert = "ok"
    /\ outcome.query = "failed"
    /\ outcome.pull = "failed"
    /\ sent = <<[status |-> 200, body |-> "null"]>>

\* C7 as stated: every finished run with a non-empty set of quotes has made
\* the historical request, and answers with its result when there is one.
C7_Original ==
    (Finished /\ Len(uniqueQuotesMap) > 0) =>
        /\ queryCalls = 1
        /\ outcome.query = "ok" => sent[Len(sent)].body = HistoricalRows

\* C7 amended: with a non-empty set of quotes the historical request is made
\* exactly when the insert succeeded, and the 200 answer carries its result
\* when it succeeded; after a failed insert no request is made and the body
\* is null, as it is after a failed request.
C7_QueryAfterInsert ==
    (Finished /\ Len(uniqueQuotesMap) > 0) =>
        /\ Len(sent) = 1 /\ sent[1].status = 200
        /\ outcome.insert = "ok" =>
              /\ queryCalls = 1
              /\ outcome.query = "ok" => sent[1].body = HistoricalRows
              /\ outcome.query = "failed" => sent[1].body = "null"
        /\ outcome.insert = "failed" =>
              /\ queryCalls = 0
              /\ outcome.query = "none"
              /\ sent[1].body = "null"

\* a finished run whose insert failed: no historical request, null body
C7_Witness ==
    /\ Finished
    /\ Len(uniqueQuotesMap) > 0
    /\ outcome.insert = "failed"
    /\ queryCalls = 0
    /\ sent = <<[status |-> 200, body |-> "null"]>>

\* C8: with no quote left after the merge the run posts no insert, makes no
\* historical request, posts the pull time once and answers 200 with null.
C8_EmptyQuoteSet ==
    (PastFetch /\ Len(uniqueQuotesMap) = 0) =>
        /\ insertCalls = <<>>
        /\ queryCalls = 0
        /\ pullCalls = 1
        /\ pc \in {"pull", "done"}
        /\ Finished => sent = <<[status |-> 200, body |-> "null"]>>

\* a finished run of two batches, one failed and one without a valid entry
C8_Witness ==
    /\ Finished
    /\ NumChunks = 2
    /\ Len(uniqueQuotesMap) = 0
    /\ \E b1, b2 \in Batches :
          /\ BatchFailed(b1)
          /\ BatchSucceeded(b2)
          /\ Len(responses[b2].quotes) > 0
    /\ pullCalls = 1
    /\ sent = <<[status |-> 200, body |-> "null"]>>

\* C9: a run past the fetch phase has posted the pull time exactly once by
\* the time it answers, whatever happened to the insert, and the answer is
\* 200 with the historical data held, whether or not the post succeeded.
C9_PullTimeAlways ==
    /\ (outcome.load = "ok" /\ sent # <<>>) =>
          /\ pullCalls = 1
          /\ outcome.pull \in {"ok", "failed"}
          /\ sent = <<[status |-> 200,
                       body |-> IF outcome.query = "ok"
                                THEN HistoricalRows ELSE "null"]>>
    /\ (PastFetch /\ pc = "pull") => (pullCalls = 1 /\ sent = <<>>)

\* a finished run whose pull-time post failed after a successful insert and
\* historical request: the body is still the historical data
C9_Witness ==
    /\ Finished
    /\ outcome.insert = "ok"
    /\ outcome.query = "ok"
    /\ outcome.pull = "failed"
    /\ pullCalls = 1
    /\ sent = <<[status |-> 200, body |-> HistoricalRows]>>

\* C10: no batch is requested more than once, and the insert, the historical
\* request and the pull-time post are each made at most once.
C10_NoRetry ==
    /\ \A b \in DOMAIN fetchCalls : fetchCalls[b] <= 1
    /\ Len(insertCalls) <= 1
    /\ queryCalls <= 1
    /\ pullCalls <= 1

\* a finished run in which every batch was rejected or threw and the
\* pull-time post failed too, each having been attempted once
C10_Witness ==
    /\ Finished
    /\ NumChunks = MaxChunks
    /\ \A b \in Batches : BatchFailed(b) /\ fetchCalls[b] = 1
    /\ \E b \in Batches : batchState[b] = "rejected"
    /\ outcome.pull = "failed"
    /\ pullCalls = 1

\* C11: in a run that began while no access-token pair was stored, every
\* batch that has settled ended as a failed batch with an empty result, and
\* the run did not take the error path.
C11_FailClosed ==
    /\ \A b \in Batches :
          (signedWith[b].key = Undefined /\ batchState[b] # "pending")
              => results[b].isNull
    /\ outcome.load = "ok" => \A i \in 1..Len(sent) : sent[i].status = 200

\* C12: a run whose batches have been requested eventually sends a response,
\* also when the provider never answers the request of one batch: that batch
\* is given up as failed after a bounded time.
C12_RespondsDespiteSilence == (pc = "fetching") ~> (Len(sent) >= 1)

\* C13: all the batch requests of one run are signed with the same token and
\* secret, also when a handshake stores a new pair while they are in flight.
C13_OnePairPerRun ==
    \A b, c \in Batches :
        /\ signedWith[b].key = signedWith[c].key
        /\ signedWith[b].secret = signedWith[c].secret

\* a run signed with a stored pair, one of whose two requests has failed and
\* the other is still in flight, while a later handshake has stored another
\* pair
C13_Witness ==
    /\ pc = "fetching"
    /\ NumChunks = 2
    /\ batchState[1] = "rejected"
    /\ batchState[2] = "pending"
    /\ signedWith[1].key # Undefined
    /\ storedAccessToken # signedWith[1].key
    /\ storedAccessTokenSecret # signedWith[2].secret
    /\ Len(oauthSent) = 2
    /\ oauthSent[2].status = 200

\* C18: an execute-oauth request that lacks oauth_token, oauth_token_secret
\* or oauth_verifier is answered 400 with authenticated false, makes no
\* token-exchange request and leaves the stored pair as it was; an exchange
\* that fails is answered with authenticated false and leaves the stored
\* pair as it was too.
C18_HandshakeErrors ==
    [][LET replied == Len(oauthSent') = Len(oauthSent) + 1
           received == oauthPc = "idle" /\ (oauthPc' = "exchanging" \/ replied)
           lacking == \/ ~oauthBody'.oauth_token
                      \/ ~oauthBody'.oauth_token_secret
                      \/ ~oauthBody'.oauth_verifier
           pairKept == /\ storedAccessToken' = storedAccessToken
                       /\ storedAccessTokenSecret' = storedAccessTokenSecret
       IN  /\ (received /\ lacking) =>
                 /\ replied
                 /\ oauthSent'[Len(oauthSent')] =
                        [status |-> 400, authenticated |-> FALSE]
                 /\ exchangeCalls' = exchangeCalls
                 /\ oauthPc' = "idle"
                 /\ pairKept
           /\ (oauthPc = "exchanging" /\ replied
                 /\ ~oauthSent'[Len(oauthSent')].authenticated) =>
                 /\ oauthSent'[Len(oauthSent')].status = 500
                 /\ pairKept
      ]_vars

\* a pair was stored by a first handshake; a second request lacked a field
\* and a third one's exchange failed, and the stored pair is still there
C18_Witness ==
    /\ Len(oauthSent) = 3
    /\ oauthSent[1] = [status |-> 200, authenticated |-> TRUE]
    /\ oauthSent[2] = [status |-> 400, authenticated |-> FALSE]
    /\ oauthSent[3] = [status |-> 500, authenticated |-> FALSE]
    /\ exchangeCalls = 2
    /\ storedAccessToken # Undefined
    /\ storedAccessTokenSecret # Undefined

\* argument and result of the map callback once it has been applied
Mapped == output.done /\ input.fn = "map"

\* the entry holds a symbol, a last-trade price and a 52-week high
HasAllThree(q) ==
    /\ q.symbol # Undefined /\ q.symbol # <<"">>
    /\ q.lastTrade # Undefined
    /\ q.high52 # Undefined

C15_GrowthSafe ==
    (Mapped /\ HasAllThree(input.q)
        /\ (input.q.low52 = Undefined \/ input.q.low52 = <<0>>)) =>
        /\ Len(output.ret.out) = 1
        /\ output.ret.out[1].growth.kind = "null"

\* C16: the quote of a valid entry has isNewHigh true exactly when its price
\* is at least its 52-week high; a price equal to the high is a new high.
C16_NewHighInclusive ==
    (Mapped /\ HasAllThree(input.q)) =>
        /\ Len(output.ret.out) = 1
        /\ output.ret.out[1].isNewHigh
              <=> input.q.lastTrade[1] >= input.q.high52[1]
        /\ input.q.lastTrade = input.q.high52 => output.ret.out[1].isNewHigh

\* the quote of an entry whose price equals its 52-week high, a new high
C16_Witness ==
    /\ Mapped
    /\ input.q.symbol = <<"AAA">>
    /\ input.q.lastTrade = <<2>>
    /\ input.q.high52 = <<2>>
    /\ Len(output.ret.out) = 1
    /\ output.ret.out[1].isNewHigh

\* argument and result of chunkArray once it has been applied
Chunked == output.done /\ input.fn = "chunkArray"

RECURSIVE ConcatFrom(_, _)
ConcatFrom(seqs, i) ==
    IF i > Len(seqs) THEN <<>> ELSE seqs[i] \o ConcatFrom(seqs, i + 1)

RECURSIVE SumLenFrom(_, _)
SumLenFrom(seqs, i) ==
    IF i > Len(seqs) THEN 0 ELSE Len(seqs[i]) + SumLenFrom(seqs, i + 1)

\* C17: for an array of length L and a size N > 0, the batches of chunkArray
\* concatenate to the array in order, their lengths sum to L, every batch but
\* the last holds exactly N elements, and the last holds 1 to N.
C17_Partition ==
    Chunked =>
        LET cs == output.ret
            n == input.size
        IN  /\ ConcatFrom(cs, 1) = input.arr
            /\ SumLenFrom(cs, 1) = Len(input.arr)
            /\ \A i \in 1..(Len(cs) - 1) : Len(cs[i]) = n
            /\ Len(cs) > 0 => (Len(cs[Len(cs)]) >= 1 /\ Len(cs[Len(cs)]) <= n)
            /\ Len(input.arr) > 0 => Len(cs) > 0

\* five tickers in chunks of two: two full batches and a last one of one
C17_Witness ==
    /\ Chunked
    /\ input.arr = <<1, 2, 3, 4, 5>>
    /\ input.size = 2
    /\ output.ret = << <<1, 2>>, <<3, 4>>, <<5>> >>

\* C19 as stated: in a run with a non-empty quote set the historical query is
\* issued only after the pull-time post has been attempted.
C19_Original ==
    (Len(insertCalls) > 0 /\ queryCalls > 0) => pullCalls > 0

\* C19: in a run with a non-empty quote set the insert is posted first; the
\* historical query is issued only once the insert has succeeded; the
\* pull-time post is attempted last, after the query has ended or the insert
\* has failed.
C19_InsertQueryPull ==
    Len(insertCalls) > 0 =>
        /\ queryCalls > 0 => outcome.insert = "ok"
        /\ pc = "query" => pullCalls = 0
        /\ pullCalls > 0 =>
              /\ outcome.insert # "none"
              /\ outcome.insert = "ok" =>
                    (queryCalls = 1 /\ outcome.query # "none")
              /\ outcome.insert = "failed" => queryCalls = 0

\* the pull-time post is in flight after the insert and the historical
\* query have both ended
C19_Witness ==
    /\ pc = "pull"
    /\ Len(insertCalls) = 1
    /\ outcome.insert = "ok"
    /\ outcome.query = "ok"
    /\ queryCalls = 1
    /\ pullCalls = 1

\* C20: when a batch has succeeded and its response held a valid entry for
\* symbol s, the final quote set holds a quote for s, whatever happened to
\* the other batches.
C20_NoSymbolLoss ==
    PastFetch =>
        \A b \in Batches : \A s \in Symbols :
            Returned(b, s) => HasSymbol(uniqueQuotesMap, s)

\* C21: a run of the handler never sends more than one response, and a run
\* that has ended has sent exactly one: the 500 error object when the
\* universe could not be loaded, otherwise status 200 with the historical
\* data or null, whatever failed in the later steps.
C21_ExactlyOneResponse ==
    /\ Len(sent) <= 1
    /\ Finished <=> Len(sent) = 1
    /\ Len(sent) = 1 =>
          \/ /\ outcome.load = "failed"
             /\ sent[1] = [status |-> 500, body |-> ErrorBody]
          \/ /\ outcome.load = "ok"
             /\ sent[1].status = 200
             /\ sent[1].body \in {"null", HistoricalRows}
             /\ sent[1].body = historicalData

\* a run that has ended after a rejected batch, a failed insert and a failed
\* pull-time post: its one response is 200 with a null body
C21_Witness ==
    /\ Finished
    /\ \E b \in Batches : batchState[b] = "rejected"
    /\ Len(insertCalls) = 1
    /\ outcome.insert = "failed"
    /\ outcome.pull = "failed"
    /\ sent = <<[status |-> 200, body |-> "null"]>>

====
